---- MODULE Spec2Model ----
(***************************************************************************)
(* Model of the parser-combinator engine of parser_combinators.py.         *)
(*                                                                         *)
(* A cursor (ParserState) is the pair (index, result) over a fixed source. *)
(* A parser is a term; Run interprets a term on a cursor the way the       *)
(* wrapped Python function does, and yields an outcome: a new cursor       *)
(* (kind "ok"), a ParseError (kind "mismatch") or an EOFError (kind "eof").*)
(* Text is a sequence of code points, a byte buffer a sequence of 0..255.  *)
(* Values are tagged records [t, v] so that values of different Python     *)
(* types can be compared.                                                  *)
(***************************************************************************)
EXTENDS Integers, Sequences, FiniteSets, TLC

VARIABLES mode, source, cursor, op, start, outcome

vars == <<mode, source, cursor, op, start, outcome>>

(***************************************************************************)
(* Bounds of the model.                                                    *)
(***************************************************************************)
MaxText == 3
MaxBytes == 2
MaxWidth == 9

(***************************************************************************)
(* Values.                                                                 *)
(***************************************************************************)
None == [t |-> "none"]
IntV(n) == [t |-> "int", v |-> n]
StrV(s) == [t |-> "str", v |-> s]
ListV(l) == [t |-> "list", v |-> l]
TupleV(l) == [t |-> "tuple", v |-> l]
LabelV(s) == [t |-> "label", v |-> s]

(***************************************************************************)
(* ParserState and the two exceptions.                                     *)
(***************************************************************************)
ParserState(index, result) == [kind |-> "ok", index |-> index, result |-> result]

update(parser_state, index, result) == ParserState(index, result)

ParseError(msg) == [kind |-> "mismatch", msg |-> msg]

EOFError == [kind |-> "eof", msg |-> [fmt |-> "End of input reached, unable to match further."]]

\* source[index:]
target(src, parser_state) ==
    IF parser_state.index >= Len(src) THEN <<>>
    ELSE SubSeq(src, parser_state.index + 1, Len(src))

\* s[:n]
Prefix(s, n) == IF n >= Len(s) THEN s ELSE SubSeq(s, 1, n)

startswith(s, t) == Len(t) <= Len(s) /\ SubSeq(s, 1, Len(t)) = t

isalpha(c) == c \in 65..90 \/ c \in 97..122

isdigit(c) == c \in 48..57

(***************************************************************************)
(* Parser terms.                                                           *)
(***************************************************************************)
Pstring(s) == [p |-> "string", s |-> s]
Pletter == [p |-> "letter"]
Pdigit == [p |-> "digit"]
Psequence_of(ps) == [p |-> "sequence_of", ps |-> ps]
Pchoice(ps) == [p |-> "choice", ps |-> ps]
Pmany(q) == [p |-> "many", q |-> q]
Pmany1(q) == [p |-> "many1", q |-> q]
Pseparated_by(sep, value) == [p |-> "separated_by", sep |-> sep, value |-> value]
Psucceed(v) == [p |-> "succeed", v |-> v]
Pfail(m) == [p |-> "fail", m |-> m]
Pbit == [p |-> "bit"]
Pzero == [p |-> "zero"]
Pone == [p |-> "one"]
Pmap(q, f) == [p |-> "map", q |-> q, f |-> f]
Pchain(q, f) == [p |-> "chain", q |-> q, f |-> f]
Perror_map(q, f) == [p |-> "error_map", q |-> q, f |-> f]
Praw_string(s) == [p |-> "raw_string", s |-> s]

Repeat(x, n) == [i \in 1..n |-> x]

(***************************************************************************)
(* Primitive matchers.                                                     *)
(***************************************************************************)
string(tgt, src, parser_state) ==
    IF Len(tgt) > Len(target(src, parser_state)) THEN EOFError
    ELSE IF startswith(target(src, parser_state), tgt)
         THEN update(parser_state, parser_state.index + Len(tgt), StrV(tgt))
         ELSE ParseError([fmt |-> "{got} at index {index} does not start with {expected}.",
                          got |-> Prefix(target(src, parser_state), Len(tgt)),
                          index |-> parser_state.index,
                          expected |-> tgt])

letter(src, parser_state) ==
    IF Len(target(src, parser_state)) = 0 THEN EOFError
    ELSE IF isalpha(target(src, parser_state)[1])
         THEN update(parser_state, parser_state.index + 1,
                     StrV(<<target(src, parser_state)[1]>>))
         ELSE ParseError([fmt |-> "Couldn't match letters at index {index}.",
                          index |-> parser_state.index])

digit(src, parser_state) ==
    IF Len(target(src, parser_state)) = 0 THEN EOFError
    ELSE IF isdigit(target(src, parser_state)[1])
         THEN update(parser_state, parser_state.index + 1,
                     StrV(<<target(src, parser_state)[1]>>))
         ELSE ParseError([fmt |-> "Couldn't match digits at index {index}.",
                          index |-> parser_state.index])

succeed(value, src, parser_state) == update(parser_state, parser_state.index, value)

fail(error_message, src, parser_state) == ParseError(error_message)

\* (byte & (1 << bit_offset)) >> bit_offset
BitOf(byte, bit_offset) == (byte \div (2 ^ bit_offset)) % 2

\* bit with the bits of a byte numbered from the least significant one
bit_lsb_first(src, parser_state) ==
    LET byte_offset == parser_state.index \div 8
    IN  IF byte_offset >= Len(src) THEN EOFError
        ELSE LET bit_offset == parser_state.index % 8
                 byte == src[byte_offset + 1]
             IN  update(parser_state, parser_state.index + 1, IntV(BitOf(byte, bit_offset)))

bit(src, parser_state) ==
    LET byte_offset == parser_state.index \div 8
    IN  IF byte_offset >= Len(src) THEN EOFError
        ELSE LET bit_offset == 7 - (parser_state.index % 8)
                 byte == src[byte_offset + 1]
             IN  update(parser_state, parser_state.index + 1, IntV(BitOf(byte, bit_offset)))

zero(src, parser_state) ==
    LET byte_offset == parser_state.index \div 8
    IN  IF byte_offset >= Len(src) THEN EOFError
        ELSE LET bit_offset == 7 - (parser_state.index % 8)
                 byte == src[byte_offset + 1]
             IN  IF BitOf(byte, bit_offset) # 0
                 THEN ParseError([fmt |-> "Expected a zero, but got a one at index {index}",
                                  index |-> parser_state.index])
                 ELSE update(parser_state, parser_state.index + 1, IntV(BitOf(byte, bit_offset)))

one(src, parser_state) ==
    LET byte_offset == parser_state.index \div 8
    IN  IF byte_offset >= Len(src) THEN EOFError
        ELSE LET bit_offset == 7 - (parser_state.index % 8)
                 byte == src[byte_offset + 1]
             IN  IF BitOf(byte, bit_offset) # 1
                 THEN ParseError([fmt |-> "Expected a one, but got a zero at index {index}",
                                  index |-> parser_state.index])
                 ELSE update(parser_state, parser_state.index + 1, IntV(BitOf(byte, bit_offset)))

(***************************************************************************)
(* Functions handed to map, chain and error_map, as terms.                 *)
(***************************************************************************)
RECURSIVE WeightedSum(_, _, _)
\* sum(map(lambda ix: ix[1] * 2 ** (n - (ix[0] + 1)), enumerate(result))), from 0-based position i;
\* the term of a zero element is 0 and its power is not computed (values stay below 2^31 here)
WeightedSum(result, n, i) ==
    IF i >= Len(result) THEN 0
    ELSE (IF result[i + 1].v = 0 THEN 0 ELSE result[i + 1].v * 2 ^ (n - (i + 1)))
         + WeightedSum(result, n, i + 1)

RECURSIVE InvertedSum(_, _, _)
\* sum(map(lambda ix: (0 if ix[1] == 1 else 1) * 2 ** (n - (ix[0] + 1)), enumerate(bits)))
InvertedSum(bits, n, i) ==
    IF i >= Len(bits) THEN 0
    ELSE (IF bits[i + 1].v = 1 THEN 0 ELSE 1) * 2 ^ (n - (i + 1)) + InvertedSum(bits, n, i + 1)

uint_fold(n, result) == IntV(WeightedSum(result.v, n, 0))

\* int's fold without the "1 +": one's complement
int_fold_ones_complement(n, bits) ==
    IF bits.v[1].v = 0 THEN IntV(WeightedSum(bits.v, n, 0))
    ELSE IntV(-InvertedSum(bits.v, n, 0))

int_fold(n, bits) ==
    IF bits.v[1].v = 0 THEN IntV(WeightedSum(bits.v, n, 0))
    ELSE IntV(-(1 + InvertedSum(bits.v, n, 0)))

tag(type_, value) == TupleV(<<LabelV(type_), value>>)

\* result.to_bytes(4, 'big'), each octet then rendered in decimal and joined with '.'
to_bytes4(x) == <<(x \div 16777216) % 256, (x \div 65536) % 256, (x \div 256) % 256, x % 256>>

dotted(result) == [t |-> "dotted", v |-> to_bytes4(result.v)]

\* list(x) of a tuple x
list(x) == ListV(x.v)

\* source.encode('utf-8'), for code points below 2048
RECURSIVE encode(_)
encode(s) ==
    IF Len(s) = 0 THEN <<>>
    ELSE (IF s[1] < 128 THEN <<s[1]>> ELSE <<192 + (s[1] \div 64), 128 + (s[1] % 64)>>)
         \o encode(Tail(s))

\* chr(b): the one-character string of code point b
chr(b) == StrV(<<b>>)

uint(n) == Pmap(Psequence_of(Repeat(Pbit, n)), [fn |-> "uint_fold", n |-> n])

int(n) == Pmap(Psequence_of(Repeat(Pbit, n)), [fn |-> "int_fold", n |-> n])

map_fn(f, result) ==
    CASE f.fn = "uint_fold" -> uint_fold(f.n, result)
      [] f.fn = "int_fold" -> int_fold(f.n, result)
      [] f.fn = "tag" -> tag(f.type_, result)
      [] f.fn = "tag_ip" -> tag(f.type_, dotted(result))

chain_fn(f, result) ==
    CASE f.fn = "expect_byte" ->
            IF result.v = f.b THEN Psucceed(IntV(f.b))
            ELSE Pfail([fmt |-> "Expected {expected}, but got {got}.",
                        expected |-> chr(f.b), got |-> chr(result.v)])
      [] f.fn = "ipv4_options" ->
            IF result.v[2].v[2].v > 5
            THEN Pchain(Psequence_of(Repeat(uint(8), 8)),
                        [fn |-> "append_options", result |-> result])
            ELSE Psucceed(result)
      [] f.fn = "append_options" ->
            Psucceed(ListV(f.result.v \o list(tag("Options", result)).v))

error_map_fn(f, parse_error, index) ==
    CASE f.fn = "default" -> f.v
      [] f.fn = "report" -> TupleV(<<[t |-> "error", v |-> parse_error.msg], IntV(index)>>)

(***************************************************************************)
(* The combinators.  Run applies a parser term to a cursor.                *)
(***************************************************************************)
RECURSIVE Run(_, _, _)
RECURSIVE sequence_of_for(_, _, _, _, _)
RECURSIVE choice_for(_, _, _, _)
RECURSIVE many_while(_, _, _, _)
RECURSIVE separated_by_while(_, _, _, _, _)

\* the for loop of sequence_of, about to run parsers[i]
sequence_of_for(parsers, src, parser_state, results, i) ==
    IF i > Len(parsers) THEN update(parser_state, parser_state.index, ListV(results))
    ELSE LET next_state == Run(parsers[i], src, parser_state)
         IN  IF next_state.kind # "ok" THEN next_state
             ELSE sequence_of_for(parsers, src, next_state,
                                  Append(results, next_state.result), i + 1)

sequence_of(parsers, src, parser_state) == sequence_of_for(parsers, src, parser_state, <<>>, 1)

RECURSIVE ReachedFor(_, _, _, _)
\* the cursor a sequence_of had reached when one of its parsers failed
ReachedFor(parsers, src, parser_state, i) ==
    IF i > Len(parsers) THEN parser_state
    ELSE LET next_state == Run(parsers[i], src, parser_state)
         IN  IF next_state.kind # "ok" THEN parser_state
             ELSE ReachedFor(parsers, src, next_state, i + 1)

\* the cursor parser q had reached when it failed
Reached(q, src, parser_state) ==
    IF q.p = "sequence_of" THEN ReachedFor(q.ps, src, parser_state, 1) ELSE parser_state

\* choice that goes on from where the failed alternative had got to
choice_for_resuming(parsers, src, parser_state, i) ==
    IF i > Len(parsers)
    THEN ParseError([fmt |-> "Unable to match any parsers at index {index}.",
                     index |-> parser_state.index])
    ELSE LET next_state == Run(parsers[i], src, parser_state)
         IN  IF next_state.kind = "mismatch"
             THEN choice_for(parsers, src, Reached(parsers[i], src, parser_state), i + 1)
             ELSE next_state

\* choice that moves on to the next alternative on end-of-input as well
choice_for_any_failure(parsers, src, parser_state, i) ==
    IF i > Len(parsers)
    THEN ParseError([fmt |-> "Unable to match any parsers at index {index}.",
                     index |-> parser_state.index])
    ELSE LET next_state == Run(parsers[i], src, parser_state)
         IN  IF next_state.kind # "ok" THEN choice_for(parsers, src, parser_state, i + 1)
             ELSE next_state

\* the for loop of choice, about to try parsers[i]; parser_state is only
\* assigned when the alternative returns, and then choice returns at once
choice_for(parsers, src, parser_state, i) ==
    IF i > Len(parsers)
    THEN ParseError([fmt |-> "Unable to match any parsers at index {index}.",
                     index |-> parser_state.index])
    ELSE LET next_state == Run(parsers[i], src, parser_state)
         IN  IF next_state.kind = "mismatch" THEN choice_for(parsers, src, parser_state, i + 1)
             ELSE next_state

choice(parsers, src, parser_state) == choice_for(parsers, src, parser_state, 1)

\* the while loop shared in shape by many and many1
many_while(parser, src, parser_state, results) ==
    LET next_state == Run(parser, src, parser_state)
    IN  IF next_state.kind = "ok"
        THEN many_while(parser, src, next_state, Append(results, next_state.result))
        ELSE update(parser_state, parser_state.index, ListV(results))

many(parser, src, parser_state) ==
    LET first_state == Run(parser, src, parser_state)
    IN  IF first_state.kind # "ok" THEN parser_state
        ELSE many_while(parser, src, first_state, <<first_state.result>>)

\* many1 that swallows a failed first attempt the way many does
many1_like_many(parser, src, parser_state) ==
    LET first_state == Run(parser, src, parser_state)
    IN  IF first_state.kind # "ok" THEN parser_state
        ELSE many_while(parser, src, first_state, <<first_state.result>>)

many1(parser, src, parser_state) ==
    LET first_state == Run(parser, src, parser_state)
    IN  IF first_state.kind # "ok" THEN first_state
        ELSE many_while(parser, src, first_state, <<first_state.result>>)

separated_by_while(separator_parser, value_parser, src, parser_state, results) ==
    LET value_state == Run(value_parser, src, parser_state)
    IN  IF value_state.kind = "mismatch"
        THEN update(parser_state, parser_state.index, ListV(results))
        ELSE IF value_state.kind = "eof" THEN value_state
        ELSE LET separator_state == Run(separator_parser, src, value_state)
                 results1 == Append(results, value_state.result)
             IN  IF separator_state.kind = "mismatch"
                 THEN update(value_state, value_state.index, ListV(results1))
                 ELSE IF separator_state.kind = "eof" THEN separator_state
                 ELSE separated_by_while(separator_parser, value_parser, src,
                                         separator_state, results1)

separated_by(separator_parser, value_parser, src, parser_state) ==
    separated_by_while(separator_parser, value_parser, src, parser_state, <<>>)

map(q, f, src, parser_state) ==
    LET next_state == Run(q, src, parser_state)
    IN  IF next_state.kind # "ok" THEN next_state
        ELSE update(next_state, next_state.index, map_fn(f, next_state.result))

chain(q, f, src, parser_state) ==
    LET next_state == Run(q, src, parser_state)
    IN  IF next_state.kind # "ok" THEN next_state
        ELSE Run(chain_fn(f, next_state.result), src, next_state)

\* error_map that substitutes at the position the failed parser had reached
error_map_at_failure(q, f, src, parser_state) ==
    LET next_state == Run(q, src, parser_state)
    IN  IF next_state.kind = "mismatch"
        THEN update(parser_state, Reached(q, src, parser_state).index,
                    error_map_fn(f, next_state, parser_state.index))
        ELSE next_state

error_map(q, f, src, parser_state) ==
    LET next_state == Run(q, src, parser_state)
    IN  IF next_state.kind = "mismatch"
        THEN update(parser_state, parser_state.index,
                    error_map_fn(f, next_state, parser_state.index))
        ELSE next_state

ExpectBytes(string_source) ==
    [i \in 1..Len(string_source) |->
        Pchain(uint(8), [fn |-> "expect_byte", b |-> string_source[i]])]

raw_string(s, src, parser_state) ==
    LET string_source == encode(s)
    IN  sequence_of(ExpectBytes(string_source), src, parser_state)

Run(q, src, parser_state) ==
    CASE q.p = "string" -> string(q.s, src, parser_state)
      [] q.p = "letter" -> letter(src, parser_state)
      [] q.p = "digit" -> digit(src, parser_state)
      [] q.p = "succeed" -> succeed(q.v, src, parser_state)
      [] q.p = "fail" -> fail(q.m, src, parser_state)
      [] q.p = "bit" -> bit(src, parser_state)
      [] q.p = "zero" -> zero(src, parser_state)
      [] q.p = "one" -> one(src, parser_state)
      [] q.p = "sequence_of" -> sequence_of(q.ps, src, parser_state)
      [] q.p = "choice" -> choice(q.ps, src, parser_state)
      [] q.p = "many" -> many(q.q, src, parser_state)
      [] q.p = "many1" -> many1(q.q, src, parser_state)
      [] q.p = "separated_by" -> separated_by(q.sep, q.value, src, parser_state)
      [] q.p = "map" -> map(q.q, q.f, src, parser_state)
      [] q.p = "chain" -> chain(q.q, q.f, src, parser_state)
      [] q.p = "error_map" -> error_map(q.q, q.f, src, parser_state)
      [] q.p = "raw_string" -> raw_string(q.s, src, parser_state)

ipv4_header_parser ==
    Pchain(Psequence_of(<<
        Pmap(uint(4), [fn |-> "tag", type_ |-> "Version"]),
        Pmap(uint(4), [fn |-> "tag", type_ |-> "IHL"]),
        Pmap(uint(6), [fn |-> "tag", type_ |-> "DSCP"]),
        Pmap(uint(2), [fn |-> "tag", type_ |-> "ECN"]),
        Pmap(uint(16), [fn |-> "tag", type_ |-> "Total Length"]),
        Pmap(uint(16), [fn |-> "tag", type_ |-> "Identification"]),
        Pmap(uint(3), [fn |-> "tag", type_ |-> "Flags"]),
        Pmap(uint(13), [fn |-> "tag", type_ |-> "Fragment Offset"]),
        Pmap(uint(8), [fn |-> "tag", type_ |-> "TTL"]),
        Pmap(uint(8), [fn |-> "tag", type_ |-> "Protocol"]),
        Pmap(uint(16), [fn |-> "tag", type_ |-> "Header Checksum"]),
        Pmap(uint(32), [fn |-> "tag_ip", type_ |-> "Source IP"]),
        Pmap(uint(32), [fn |-> "tag_ip", type_ |-> "Destination IP"])
    >>), [fn |-> "ipv4_options"])

\* Parser.parse: a fresh cursor at index 0 with result None
parse(q, tgt) == Run(q, tgt, ParserState(0, None))

(***************************************************************************)
(* The state machine: a caller holds a source and a cursor and applies     *)
(* parsers to it.  mode tells text grammars from bit grammars and from the *)
(* module's own run of ipv4_header_parser on a packet.                     *)
(***************************************************************************)
RECURSIVE SeqsUpTo(_, _)
SeqsUpTo(S, n) ==
    IF n = 0 THEN {<<>>}
    ELSE LET shorter == SeqsUpTo(S, n - 1)
         IN  shorter \cup {Append(s, x) : s \in {t \in shorter : Len(t) = n - 1}, x \in S}

\* 'a', 'b', '1', ','
Alphabet == {97, 98, 49, 44}

Texts == SeqsUpTo(Alphabet, MaxText)

\* 01100001, 10101001, 11000011, 00000000
ByteVals == {97, 169, 195, 0}

\* 'aba', 'a' followed by e-acute
RawStrings == <<(<<97, 98, 97>>), (<<97, 233>>), (<<98>>)>>

\* buffers for raw_string: the encoding of a string with its last byte varied
RawBuffers ==
    {[encode(RawStrings[i]) EXCEPT ![Len(encode(RawStrings[i]))] = x] :
        i \in 1..Len(RawStrings), x \in ByteVals \cup {97, 98}}

Buffers == SeqsUpTo(ByteVals, MaxBytes) \cup RawBuffers

TextPool == <<
    Pletter,
    Pdigit,
    Pstring(<<44>>),
    Pstring(<<97, 98>>),
    Psequence_of(<<Pletter, Pdigit>>),
    Psequence_of(<<Pstring(<<97>>), Pstring(<<44>>), Pletter>>),
    Pmany(Pletter),
    Pfail([fmt |-> "no"]) >>

BitPool == <<
    Pbit,
    Pzero,
    Pone,
    Psequence_of(<<Pone, Pzero>>),
    Psequence_of(<<Pzero, Pone, Pone, Pone>>),
    uint(3),
    Praw_string(<<97>>),
    Pfail([fmt |-> "no"]) >>

\* the 20 fixed bytes of an IPv4 header
Ipv4Header(version, ihl, ttl, src1) ==
    <<version * 16 + ihl, 0, 0, 20, 28, 70, 64, 0, ttl, 6, 177, 230,
      src1, 0, 0, 1, 127, 16, 10, 99>>

\* what follows the fixed bytes in the packet: nothing, 4 bytes, 8 bytes, 9 bytes
Tails == {<<>>, <<1, 2, 3, 4>>, <<1, 2, 3, 4, 5, 6, 7, 8>>, <<1, 1, 2, 3, 4, 5, 6, 7, 8>>}

Packets ==
    {Ipv4Header(4, ihl, ttl, src1) \o tail :
        ihl \in 4..7, ttl \in {1, 64}, src1 \in {10, 127}, tail \in Tails}

Pool == IF mode = "text" THEN TextPool ELSE BitPool

\* the parsers repeated by many, many1 and separated_by: the first six of a pool
Repeated == 1..6

ErrorFns == <<[fn |-> "default", v |-> IntV(0)], [fn |-> "report"]>>

Idle == [name |-> "idle"]

Init ==
    /\ \/ mode = "text" /\ source \in Texts
       \/ mode = "bits" /\ source \in Buffers
       \/ mode = "packet" /\ source \in Packets
    /\ cursor = ParserState(0, None)
    /\ op = Idle
    /\ start = ParserState(0, None)
    /\ outcome = ParserState(0, None)

\* the caller hands its cursor to parser q and holds what comes back
Applied(o, q) ==
    /\ op = Idle
    /\ op' = o
    /\ start' = cursor
    /\ outcome' = Run(q, source, cursor)
    /\ UNCHANGED <<mode, source, cursor>>

\* the caller tries to consume one unit (a character or a bit)
Advance ==
    /\ mode \in {"text", "bits"}
    /\ \E a \in 1..3 : Applied([name |-> "advance", a |-> a], Pool[a])

\* the caller goes on from the cursor a one-unit parser returned
Keep ==
    /\ op.name = "advance"
    /\ outcome.kind = "ok"
    /\ cursor' = outcome
    /\ op' = Idle
    /\ start' = outcome
    /\ outcome' = outcome
    /\ UNCHANGED <<mode, source>>

\* the caller drops what came back and still holds the cursor it passed in
Drop ==
    /\ op # Idle
    /\ op' = Idle
    /\ start' = cursor
    /\ outcome' = cursor
    /\ UNCHANGED <<mode, source, cursor>>

ApplyChoice ==
    /\ mode \in {"text", "bits"}
    /\ \E a \in 1..Len(Pool), b \in 1..Len(Pool) :
        Applied([name |-> "choice", a |-> a, b |-> b], Pchoice(<<Pool[a], Pool[b]>>))

ApplyMany ==
    /\ mode \in {"text", "bits"}
    /\ \E a \in Repeated : Applied([name |-> "many", a |-> a], Pmany(Pool[a]))

ApplyMany1 ==
    /\ mode \in {"text", "bits"}
    /\ \E a \in Repeated : Applied([name |-> "many1", a |-> a], Pmany1(Pool[a]))

ApplySeparatedBy ==
    /\ mode \in {"text", "bits"}
    /\ \E a \in Repeated, b \in Repeated :
        Applied([name |-> "separated_by", sep |-> a, value |-> b],
                Pseparated_by(Pool[a], Pool[b]))

ApplyErrorMap ==
    /\ mode \in {"text", "bits"}
    /\ \E a \in 1..Len(Pool), f \in 1..Len(ErrorFns) :
        Applied([name |-> "error_map", a |-> a, f |-> f], Perror_map(Pool[a], ErrorFns[f]))

ApplyUint ==
    /\ mode = "bits"
    /\ \E n \in 1..MaxWidth : Applied([name |-> "uint", n |-> n], uint(n))

ApplyInt ==
    /\ mode = "bits"
    /\ \E n \in 1..MaxWidth : Applied([name |-> "int", n |-> n], int(n))

ApplyRawString ==
    /\ mode = "bits"
    /\ \E s \in 1..Len(RawStrings) :
        Applied([name |-> "raw_string", s |-> s], Praw_string(RawStrings[s]))

\* the module's own run: ipv4_header_parser.parse(f.read())
ParseIpv4 ==
    /\ mode = "packet"
    /\ op = Idle
    /\ op' = [name |-> "ipv4"]
    /\ start' = ParserState(0, None)
    /\ outcome' = parse(ipv4_header_parser, source)
    /\ UNCHANGED <<mode, source, cursor>>

Next ==
    \/ Advance
    \/ Keep
    \/ Drop
    \/ ApplyChoice
    \/ ApplyMany
    \/ ApplyMany1
    \/ ApplySeparatedBy
    \/ ApplyErrorMap
    \/ ApplyUint
    \/ ApplyInt
    \/ ApplyRawString
    \/ ParseIpv4

Spec == Init /\ [][Next]_vars

(***************************************************************************)
(* The loops of many, many1 and separated_by, one iteration per step.      *)
(* cursor is the loop's parser_state, op holds the position in the code    *)
(* (pc) and the results list; the repeated parser itself runs to its end   *)
(* within one step.                                                        *)
(***************************************************************************)
\* elements of a results list that are kept; a longer list stays at this length
MaxResults == 6

LoopPool == <<
    Pletter,
    Pdigit,
    Pstring(<<44>>),
    Psucceed(IntV(0)),
    Pmany(Pletter) >>

\* results.append(x)
Push(results, x) == IF Len(results) < MaxResults THEN Append(results, x) ELSE results

LoopInit ==
    /\ mode = "text"
    /\ source \in Texts
    /\ cursor = ParserState(0, None)
    /\ op = Idle
    /\ start = ParserState(0, None)
    /\ outcome = ParserState(0, None)

\* the loop has returned or raised: outcome is what leaves the combinator
Finish(o) ==
    /\ op' = [op EXCEPT !.pc = "done"]
    /\ outcome' = o
    /\ UNCHANGED <<mode, source, cursor, start>>

EnterMany ==
    /\ op = Idle
    /\ \E a \in 1..Len(LoopPool) :
        op' = [name |-> "many", a |-> a, pc |-> "first", results |-> <<>>]
    /\ start' = cursor
    /\ UNCHANGED <<mode, source, cursor, outcome>>

EnterMany1 ==
    /\ op = Idle
    /\ \E a \in 1..Len(LoopPool) :
        op' = [name |-> "many1", a |-> a, pc |-> "first", results |-> <<>>]
    /\ start' = cursor
    /\ UNCHANGED <<mode, source, cursor, outcome>>

EnterSeparatedBy ==
    /\ op = Idle
    /\ \E a \in 1..Len(LoopPool), b \in 1..Len(LoopPool) :
        op' = [name |-> "separated_by", sep |-> a, value |-> b, pc |-> "value",
               results |-> <<>>]
    /\ start' = cursor
    /\ UNCHANGED <<mode, source, cursor, outcome>>

\* the first attempt of many (in a bare except) and of many1 (in no try)
FirstAttempt ==
    /\ op.name \in {"many", "many1"}
    /\ op.pc = "first"
    /\ LET next_state == Run(LoopPool[op.a], source, cursor)
       IN  IF next_state.kind = "ok"
           THEN /\ cursor' = next_state
                /\ op' = [op EXCEPT !.pc = "while",
                                    !.results = Push(op.results, next_state.result)]
                /\ UNCHANGED <<mode, source, start, outcome>>
           ELSE Finish(IF op.name = "many" THEN cursor ELSE next_state)

\* the parser call in the while True loop of many and many1
WhileStep ==
    /\ op.name \in {"many", "many1"}
    /\ op.pc = "while"
    /\ LET next_state == Run(LoopPool[op.a], source, cursor)
       IN  IF next_state.kind = "ok"
           THEN /\ cursor' = next_state
                /\ op' = [op EXCEPT !.pc = "append"]
                /\ UNCHANGED <<mode, source, start, outcome>>
           ELSE Finish(update(cursor, cursor.index, ListV(op.results)))

\* results.append(parser_state.result) in the while True loop, then the next iteration
AppendStep ==
    /\ op.name \in {"many", "many1"}
    /\ op.pc = "append"
    /\ op' = [op EXCEPT !.pc = "while", !.results = Push(op.results, cursor.result)]
    /\ UNCHANGED <<mode, source, cursor, start, outcome>>

\* the value half of an iteration of separated_by
ValueStep ==
    /\ op.name = "separated_by"
    /\ op.pc = "value"
    /\ LET value_state == Run(LoopPool[op.value], source, cursor)
       IN  CASE value_state.kind = "ok" ->
                    /\ cursor' = value_state
                    /\ op' = [op EXCEPT !.pc = "separator",
                                        !.results = Push(op.results, value_state.result)]
                    /\ UNCHANGED <<mode, source, start, outcome>>
             [] value_state.kind = "mismatch" ->
                    Finish(update(cursor, cursor.index, ListV(op.results)))
             [] value_state.kind = "eof" -> Finish(value_state)

\* the separator half of an iteration of separated_by
SeparatorStep ==
    /\ op.name = "separated_by"
    /\ op.pc = "separator"
    /\ LET separator_state == Run(LoopPool[op.sep], source, cursor)
       IN  CASE separator_state.kind = "ok" ->
                    /\ cursor' = separator_state
                    /\ op' = [op EXCEPT !.pc = "value"]
                    /\ UNCHANGED <<mode, source, start, outcome>>
             [] separator_state.kind = "mismatch" ->
                    Finish(update(cursor, cursor.index, ListV(op.results)))
             [] separator_state.kind = "eof" -> Finish(separator_state)

LoopNext ==
    \/ EnterMany
    \/ EnterMany1
    \/ EnterSeparatedBy
    \/ FirstAttempt
    \/ WhileStep
    \/ AppendStep
    \/ ValueStep
    \/ SeparatorStep

\* the interpreter runs on its own: a loop that can take a step takes it
LoopSpec == LoopInit /\ [][LoopNext]_vars /\ WF_vars(LoopNext)

(***************************************************************************)
(* Properties.                                                             *)
(***************************************************************************)
\* bit j of a buffer, most significant bit of each byte first
BitAt(src, j) == (src[(j \div 8) + 1] \div (2 ^ (7 - (j % 8)))) % 2

RECURSIVE BigEndian(_, _, _, _)
\* sum over i in from..n-1 of BitAt(src, k + i) * 2^(n-1-i)
BigEndian(src, k, n, from) ==
    IF from >= n THEN 0
    ELSE BitAt(src, k + from) * 2 ^ (n - 1 - from) + BigEndian(src, k, n, from + 1)

BitsLeft == 8 * Len(source) - start.index

\* C1: choice([a, b]) returns exactly a's cursor when a succeeds at the start
\* cursor, whatever b does; when a fails with a mismatch, b is run from the
\* start cursor, also when a is a sequence_of that consumed input before failing.
C1_ChoiceBacktracksToStart ==
    op.name = "choice" =>
        LET ra == Run(Pool[op.a], source, start)
            rb == Run(Pool[op.b], source, start)
        IN  /\ ra.kind = "ok" => outcome = ra
            /\ (ra.kind = "mismatch" /\ rb.kind # "mismatch") => outcome = rb
            /\ (ra.kind = "mismatch" /\ rb.kind = "mismatch") =>
                  /\ outcome.kind = "mismatch"
                  /\ outcome.msg.index = start.index

\* a sequence_of alternative matched its first element, then mismatched, and
\* the second alternative succeeded from the start cursor
C1_Witness ==
    /\ op.name = "choice"
    /\ Pool[op.a].p = "sequence_of"
    /\ Run(Pool[op.a].ps[1], source, start).kind = "ok"
    /\ Run(Pool[op.a].ps[1], source, start).index > start.index
    /\ Run(Pool[op.a], source, start).kind = "mismatch"
    /\ outcome.kind = "ok"
    /\ outcome.index > start.index
    /\ outcome = Run(Pool[op.b], source, start)

\* C2: where p fails on its first attempt, many(p) returns a successful cursor
\* with the empty sequence as result and the start index as index.
C2_ManyYieldsEmptySequence ==
    (op.name = "many" /\ Run(Pool[op.a], source, start).kind # "ok") =>
        /\ outcome.kind = "ok"
        /\ outcome.index = start.index
        /\ outcome.result = ListV(<<>>)

\* C3: with at least n bits remaining from bit index k, uint(n) advances the
\* index by exactly n and returns the most-significant-bit-first sum of the
\* bits at offsets k..k+n-1.
C3_UintBigEndian ==
    (op.name = "uint" /\ BitsLeft >= op.n) =>
        /\ outcome.kind = "ok"
        /\ outcome.index = start.index + op.n
        /\ outcome.result = IntV(BigEndian(source, start.index, op.n, 0))

\* uint read across a byte boundary from an unaligned bit index
C3_Witness ==
    /\ op.name = "uint"
    /\ start.index % 8 # 0
    /\ (start.index % 8) + op.n > 8
    /\ outcome.kind = "ok"
    /\ outcome.result.v > 1
    /\ outcome.result.v % 2 = 1

\* C4: int(n) consumes exactly n bits and returns u when the first bit is 0
\* and u - 2^n when it is 1, u being the unsigned value of the same bits; the
\* value lies in -2^(n-1) .. 2^(n-1)-1.
C4_IntTwosComplement ==
    (op.name = "int" /\ BitsLeft >= op.n) =>
        LET u == BigEndian(source, start.index, op.n, 0)
        IN  /\ outcome.kind = "ok"
            /\ outcome.index = start.index + op.n
            /\ outcome.result = IntV(IF BitAt(source, start.index) = 0 THEN u ELSE u - 2 ^ op.n)
            /\ outcome.result.v >= -(2 ^ (op.n - 1))
            /\ outcome.result.v <= 2 ^ (op.n - 1) - 1

\* a negative value other than -1 decoded from an unaligned bit index
C4_Witness ==
    /\ op.name = "int"
    /\ start.index % 8 # 0
    /\ op.n > 2
    /\ outcome.kind = "ok"
    /\ outcome.result.v < -1

\* letter (, letter)* with no trailing separator
IsLetterList(src) ==
    /\ Len(src) % 2 = 1
    /\ \A i \in 1..Len(src) : IF i % 2 = 1 THEN isalpha(src[i]) ELSE src[i] = 44

LetterValues(src) == [i \in 1..((Len(src) + 1) \div 2) |-> StrV(<<src[2 * i - 1]>>)]

\* C5: on an input that ends right after the last value, separated_by(sep)(value)
\* returns all the values instead of failing.
C5_SeparatedByAtEndOfInput ==
    (/\ op.name = "separated_by"
     /\ mode = "text"
     /\ Pool[op.sep] = Pstring(<<44>>)
     /\ Pool[op.value] = Pletter
     /\ start.index = 0
     /\ IsLetterList(source)) =>
        /\ outcome.kind = "ok"
        /\ outcome.result = ListV(LetterValues(source))

Ipv4Labels ==
    <<"Version", "IHL", "DSCP", "ECN", "Total Length", "Identification", "Flags",
      "Fragment Offset", "TTL", "Protocol", "Header Checksum", "Source IP", "Destination IP">>

IsTagged(x, label) == x.t = "tuple" /\ Len(x.v) = 2 /\ x.v[1] = LabelV(label)

\* C6: a well-formed header with IHL <= 5 parses to exactly the 13 tagged
\* fields; with IHL > 5 and 8 further bytes, to 14 elements, the last one the
\* pair of the label 'Options' and the 8 option bytes.
C6_Ipv4Fields ==
    (op.name = "ipv4" /\ Len(source) >= 20) =>
        LET ihl == source[1] % 16
            fields == outcome.result.v
        IN  /\ ihl <= 5 =>
                /\ outcome.kind = "ok"
                /\ Len(fields) = 13
                /\ \A i \in 1..13 : IsTagged(fields[i], Ipv4Labels[i])
            /\ (ihl > 5 /\ Len(source) >= 28) =>
                /\ outcome.kind = "ok"
                /\ Len(fields) = 14
                /\ \A i \in 1..13 : IsTagged(fields[i], Ipv4Labels[i])
                /\ fields[14] = tag("Options", ListV([i \in 1..8 |-> IntV(source[20 + i])]))

\* C7: raw_string(s) on a buffer that agrees with the bytes of s on the first
\* two and differs at the third fails with a mismatch whose message names the
\* mismatching byte as a character and the position; the caller's cursor is
\* unchanged.
C7_RawStringMismatchMessage ==
    (/\ op.name = "raw_string"
     /\ start.index = 0
     /\ Len(encode(RawStrings[op.s])) >= 3
     /\ Len(source) >= 3
     /\ SubSeq(source, 1, 2) = SubSeq(encode(RawStrings[op.s]), 1, 2)
     /\ source[3] # encode(RawStrings[op.s])[3]) =>
        /\ outcome.kind = "mismatch"
        /\ "got" \in DOMAIN outcome.msg
        /\ outcome.msg.got = chr(source[3])
        /\ "index" \in DOMAIN outcome.msg
        /\ cursor = start

\* C8: p.error_map(f) from cursor c: a mismatch of p becomes a success at c's
\* index with result f(failure, c.index); a success of p is returned as it is.
C8_ErrorMapSubstitutes ==
    op.name = "error_map" =>
        LET r == Run(Pool[op.a], source, start)
        IN  /\ r.kind = "mismatch" =>
                outcome = ParserState(start.index, error_map_fn(ErrorFns[op.f], r, start.index))
            /\ r.kind = "ok" => outcome = r

\* p consumed input before it mismatched, and the failure was reported
C8_Witness ==
    /\ op.name = "error_map"
    /\ Pool[op.a].p = "sequence_of"
    /\ Run(Pool[op.a].ps[1], source, start).kind = "ok"
    /\ Run(Pool[op.a], source, start).kind = "mismatch"
    /\ start.index > 0
    /\ outcome.kind = "ok"
    /\ outcome.index = start.index
    /\ outcome.result.t = "tuple"

\* C9: an alternative of choice that fails with end-of-input ends the whole
\* choice with that failure; no later alternative is tried.
C9_ChoiceStopsAtEndOfInput ==
    (op.name = "choice" /\ Run(Pool[op.a], source, start).kind = "eof") =>
        outcome = Run(Pool[op.a], source, start)

\* the first alternative ran out of input and the second would have succeeded
C9_Witness ==
    /\ op.name = "choice"
    /\ Run(Pool[op.a], source, start).kind = "eof"
    /\ Run(Pool[op.b], source, start).kind = "ok"
    /\ outcome.kind = "eof"

\* C10: when p fails on its first attempt, many1(p) fails with the failure p
\* produced, of the same kind and with the same message.
C10_Many1PropagatesFirstFailure ==
    (op.name = "many1" /\ Run(Pool[op.a], source, start).kind # "ok") =>
        /\ outcome.kind = Run(Pool[op.a], source, start).kind
        /\ outcome.msg = Run(Pool[op.a], source, start).msg

\* many1 failed with a mismatch past the start of the input
C10_Witness ==
    /\ op.name = "many1"
    /\ start.index > 0
    /\ Run(Pool[op.a], source, start).kind = "mismatch"
    /\ outcome.kind = "mismatch"

Running == op # Idle /\ op.pc # "done"

Returned == op # Idle /\ op.pc = "done"

\* C11: a parse that has entered many, many1 or separated_by eventually
\* returns a result or fails, also when the repeated parser can succeed
\* without consuming input (succeed(v), a nested many).
C11_ParseTerminates == Running ~> Returned

\* the first k characters are letter (, letter)*, then a separator follows and
\* the character after it is not a letter
HasDanglingSeparator(src, k) ==
    /\ k + 2 <= Len(src)
    /\ IsLetterList(SubSeq(src, 1, k))
    /\ src[k + 1] = 44
    /\ ~isalpha(src[k + 2])

\* C12: when separated_by has matched a separator and the value attempt after
\* it mismatches, the returned index is the position right after the last
\* fully matched value, the separator being left unconsumed.
C12_DanglingSeparatorDiscarded ==
    (/\ op.name = "separated_by"
     /\ mode = "text"
     /\ Pool[op.sep] = Pstring(<<44>>)
     /\ Pool[op.value] = Pletter
     /\ start.index = 0) =>
        \A k \in 1..Len(source) :
            HasDanglingSeparator(source, k) =>
                /\ outcome.kind = "ok"
                /\ outcome.result = ListV(LetterValues(SubSeq(source, 1, k)))
                /\ outcome.index = k

====
